---- MODULE Spec2Model ----
(***************************************************************************)
(* Model of the Nuke secondary publish hook                                *)
(* (hooks/multi_publish/nuke/secondary_publish.py): the Flame clip name    *)
(* generation and the Flame open clip update (_update_flame_clip).         *)
(*                                                                         *)
(* Python strings are sequences of one-character strings; an optional      *)
(* value (None or a value) is a sequence of length 0 or 1.                 *)
(***************************************************************************)
EXTENDS Integers, Sequences, FiniteSets, TLC

VARIABLES
    \* ---- _generate_flame_clip_name, called on its own -------------------
    gen_context,     \* self.parent.context: [task, step], each optional string
    gen_fields,      \* publish_fields: [name, channel, version], each optional
    gen_result,      \* <<>> before the call, <<name string>> after it
    \* ---- the clip file system and _update_flame_clip --------------------
    clip,            \* content of the file at clip_path
    backups,         \* timestamp -> content of <clip_path>.bak_<timestamp>
    now,             \* the wall clock, in seconds
    next_uuid,       \* number of uuid.uuid4() values handed out so far
    pc,              \* per caller: position inside _update_flame_clip
    loc,             \* per caller: the local variables of the call
    calls,           \* number of calls of _update_flame_clip made so far
    clip0,           \* history: content of the clip file at the start
    published,       \* history: unique ids of the calls that completed
    completed,       \* history: per completed call its id, backup path, clip before
    \* ---- the frame range and the Flame path, computed on their own -------
    range_frames,    \* the frame numbers of the discovered paths, in their order
    range_format,    \* sequence_key.format_spec: the zero padded width
    range_out,       \* <<>> before, <<[min, max, path, raised]>> after
    \* ---- execute of the publish hook and of the pre-publish hook ---------
    h_hook,          \* which hook runs: "publish" or "pre_publish"
    h_tasks,         \* the task dictionaries passed in
    h_env,           \* the apps of the engine and the files on disk
    h_pc,            \* "start", "loop", "returned" or "raised"
    h_todo,          \* indices of the tasks still to process, in processing order
    h_render_publishes, \* render_publishes: write node names that have an entry
    h_results,       \* results: the report built so far
    h_log,           \* history: progress reports and calls to collaborators
    h_processed,     \* history: per processed task its index and its errors
    h_tasks0         \* history: the task dictionaries as they were passed in

gen_vars == <<gen_context, gen_fields, gen_result>>
clip_vars == <<clip, backups, now, next_uuid, pc, loc, calls, clip0, published,
               completed>>
range_vars == <<range_frames, range_format, range_out>>
hook_vars == <<h_hook, h_tasks, h_env, h_pc, h_todo, h_render_publishes,
               h_results, h_log, h_processed, h_tasks0>>

vars == <<gen_vars, clip_vars, range_vars, hook_vars>>

(***************************************************************************)
(* Python values                                                           *)
(***************************************************************************)
None == << >>
Some(v) == <<v>>

\* Python truthiness of an optional string: None and "" are false
Truthy(o) == o # None /\ o[1] # << >>

\* "%s" % o
PyStr(o) == IF o = None THEN <<"N", "o", "n", "e">> ELSE o[1]

LowerCase == <<"a","b","c","d","e","f","g","h","i","j","k","l","m",
               "n","o","p","q","r","s","t","u","v","w","x","y","z">>
UpperCase == <<"A","B","C","D","E","F","G","H","I","J","K","L","M",
               "N","O","P","Q","R","S","T","U","V","W","X","Y","Z">>

ToUpper(c) ==
    IF \E i \in 1..Len(LowerCase) : LowerCase[i] = c
    THEN UpperCase[CHOOSE i \in 1..Len(LowerCase) : LowerCase[i] = c]
    ELSE c

ToLower(c) ==
    IF \E i \in 1..Len(UpperCase) : UpperCase[i] = c
    THEN LowerCase[CHOOSE i \in 1..Len(UpperCase) : UpperCase[i] = c]
    ELSE c

\* the first character upper-cased and the others kept, which is what the
\* comment of lines 421-425 shows ("Lighting CBBs")
UpperFirst(s) ==
    IF s = << >> THEN s
    ELSE <<ToUpper(s[1])>> \o [i \in 1..(Len(s) - 1) |-> s[i + 1]]

\* str.capitalize(): first character upper-cased, all the others lower-cased
Capitalize(s) ==
    IF s = << >> THEN s
    ELSE <<ToUpper(s[1])>> \o [i \in 1..(Len(s) - 1) |-> ToLower(s[i + 1])]

DigitChars == <<"0","1","2","3","4","5","6","7","8","9">>

RECURSIVE Digits(_)
\* the decimal digits of n >= 0
Digits(n) ==
    IF n < 10 THEN <<DigitChars[n + 1]>>
    ELSE Digits(n \div 10) \o <<DigitChars[(n % 10) + 1]>>

RECURSIVE ZeroFill(_, _)
ZeroFill(s, width) == IF Len(s) >= width THEN s ELSE ZeroFill(<<"0">> \o s, width)

\* "%0<width>d" % n: the sign counts in the width, longer numbers are not cut
FormatInt(n, width) ==
    IF n < 0 THEN <<"-">> \o ZeroFill(Digits(-n), width - 1)
    ELSE ZeroFill(Digits(n), width)

(***************************************************************************)
(* _generate_flame_clip_name                                               *)
(***************************************************************************)
VersionPadding == 3

CommaSpace == <<",", " ">>

\* the task or step prefix
ContextPart(context) ==
    IF context.task # None
    THEN Capitalize(context.task[1]) \o CommaSpace
    ELSE IF context.step # None
         THEN Capitalize(context.step[1]) \o CommaSpace
         ELSE << >>

\* the table the comment of lines 421-425 and the else branch of line 451 intend:
\* neither a name nor a channel gives "Nuke"
OutputPartTable(rp_name, rp_channel) ==
    IF Truthy(rp_name) /\ Truthy(rp_channel)
    THEN PyStr(rp_name) \o <<".","n","k"," ","(","o","u","t","p","u","t"," ">>
         \o PyStr(rp_channel) \o <<")">> \o CommaSpace
    ELSE IF ~Truthy(rp_name) /\ ~Truthy(rp_channel)
    THEN <<"N","u","k","e">> \o CommaSpace
    ELSE IF ~Truthy(rp_name)
    THEN <<"N","u","k","e"," ","o","u","t","p","u","t"," ">>
         \o PyStr(rp_channel) \o CommaSpace
    ELSE PyStr(rp_name) \o <<".","n","k">> \o CommaSpace

\* the if/elif chain of lines 444-451, in its order
OutputPart(rp_name, rp_channel) ==
    IF Truthy(rp_name) /\ Truthy(rp_channel)
    THEN PyStr(rp_name) \o <<".","n","k"," ","(","o","u","t","p","u","t"," ">>
         \o PyStr(rp_channel) \o <<")">> \o CommaSpace
    ELSE IF ~Truthy(rp_name)
    THEN <<"N","u","k","e"," ","o","u","t","p","u","t"," ">>
         \o PyStr(rp_channel) \o CommaSpace
    ELSE IF ~Truthy(rp_channel)
    THEN PyStr(rp_name) \o <<".","n","k">> \o CommaSpace
    ELSE <<"N","u","k","e">> \o CommaSpace

\* "v%03d" % (publish_fields.get("version") or 0)
VersionPart(version) ==
    <<"v">> \o FormatInt(IF version = None THEN 0 ELSE version[1], VersionPadding)

GenerateFlameClipName(context, publish_fields) ==
    ContextPart(context)
    \o OutputPart(publish_fields.name, publish_fields.channel)
    \o VersionPart(publish_fields.version)

\* ---- inputs of the name generation -------------------------------------
S_Comp == <<"C","o","m","p">>
S_comp == <<"c","o","m","p">>
S_LightingCBBs == <<"L","i","g","h","t","i","n","g"," ","C","B","B","s">>
S_Lighting == <<"L","i","g","h","t","i","n","g">>
S_scene == <<"s","c","e","n","e">>
S_final == <<"f","i","n","a","l">>
S_output == <<"o","u","t","p","u","t">>
S_bg == <<"b","g">>

TaskNames == {None, Some(S_Comp), Some(S_comp), Some(S_LightingCBBs)}
StepNames == {None, Some(S_Lighting), Some(S_comp)}
SceneNames == {None, Some(<< >>), Some(S_scene), Some(S_final)}
ChannelNames == {None, Some(S_output), Some(S_bg)}
MaxVersion == 1000
Versions == {None, Some(0), Some(7), Some(23), Some(34), Some(MaxVersion)}

GenInit ==
    /\ gen_context \in [task : TaskNames, step : StepNames]
    /\ gen_fields \in [name : SceneNames, channel : ChannelNames, version : Versions]
    /\ gen_result = None

GenerateName ==
    /\ gen_result = None
    /\ gen_result' = Some(GenerateFlameClipName(gen_context, gen_fields))
    /\ UNCHANGED <<gen_context, gen_fields>>

(***************************************************************************)
(* The clip document (xml.dom.minidom tree, reduced to the elements the    *)
(* hook looks up) and the clip file                                        *)
(*   document: [tracks: Seq(track), versions: Seq(versions list)]          *)
(*   track:    [uid: optional, feeds: Seq(feeds list)]                     *)
(*   a feeds / versions list: [currentVersion, children: Seq(node)]        *)
(*   feed:     [uid, vuid, path]     version: [uid, name, creationDate]    *)
(* tracks, a track's feeds lists and the versions lists are in document    *)
(* order, which is the order getElementsByTagName returns them in.         *)
(***************************************************************************)
NoDoc == [tracks |-> << >>, versions |-> << >>]

\* file contents: an XML text (a document in a given textual layout), or
\* something that is no well-formed XML: an empty file, a cut-off text
XmlFile(doc, layout) == [kind |-> "xml", doc |-> doc, layout |-> layout]
EmptyFile == [kind |-> "empty", doc |-> NoDoc, layout |-> "none"]
PartialFile == [kind |-> "partial", doc |-> NoDoc, layout |-> "none"]
GarbageFile == [kind |-> "garbage", doc |-> NoDoc, layout |-> "none"]
NoFile == [kind |-> "absent", doc |-> NoDoc, layout |-> "none"]

\* minidom.parse(clip_path): the tree of a well-formed file, the textual
\* layout is not part of the tree
CanParse(content) == content.kind = "xml"
MinidomParse(content) == content.doc

\* xml.toxml(encoding="UTF-8"): minidom's own layout of the text
ToXml(doc) == XmlFile(doc, "minidom")

\* fault: the backup is written from the parsed document, not from the bytes
CopyFileReserialized(content) ==
    IF CanParse(content) THEN ToXml(MinidomParse(content)) ELSE content

\* shutil.copy(clip_path, backup_path): the bytes of the source
CopyFile(content) == content

\* str(uuid.uuid4()): an identifier never handed out before

Uuid4(n) == <<"uuid", n>>

FlameUid(n) == <<"flame", n>>

\* ---- frame range and path, lines 630-663 --------------------------------
\* fault: the paths are taken to be sorted, first is min and last is max
ScanFramesFirstLast(frames, min_frame, max_frame) ==
    IF frames = << >> THEN [min |-> min_frame, max |-> max_frame]
    ELSE [min |-> Some(frames[1]), max |-> Some(frames[Len(frames)])]

RECURSIVE ScanFrames(_, _, _)
\* the loop over the discovered paths, tracking min_frame and max_frame
ScanFrames(frames, min_frame, max_frame) ==
    IF frames = << >> THEN [min |-> min_frame, max |-> max_frame]
    ELSE LET frame_number == Head(frames)
             lo == IF min_frame = None \/ frame_number < min_frame[1]
                   THEN Some(frame_number) ELSE min_frame
             hi == IF max_frame = None \/ frame_number > max_frame[1]
                   THEN Some(frame_number) ELSE max_frame
         IN ScanFrames(Tail(frames), lo, hi)

\* the format spec of the SEQ key of the clip updates below: "04"
SequenceKeyFormatSpec == 4

\* fault: "[%d-%d]", the numbers are not padded
FormatRangeUnpadded(min_frame, max_frame, format_spec) ==
    <<"[">> \o Digits(min_frame) \o <<"-">> \o Digits(max_frame) \o <<"]">>

\* "[%%%sd-%%%sd]" % (format_spec, format_spec) is "[%04d-%04d]" for the format
\* spec "04"; format_str % (min_frame, max_frame)
FormatRange(min_frame, max_frame, format_spec) ==
    <<"[">> \o FormatInt(min_frame, format_spec) \o <<"-">>
    \o FormatInt(max_frame, format_spec) \o <<"]">>

\* publish_template.apply_fields(render_path_fields, "linux2") for a
\* template of the form seq.{SEQ}.dpx
PublishPathFlame(min_frame, max_frame, format_spec) ==
    <<"s","e","q",".">> \o FormatRange(min_frame, max_frame, format_spec)
    \o <<".","d","p","x">>

\* ---- document lookup and mutation, lines 668-751 -------------------------
\* fault: the uid of the track is not looked at
FindFirstTrackAnyUid(tracks) ==
    IF tracks = << >> THEN [status |-> "none", index |-> 0]
    ELSE [status |-> "found", index |-> 1]

\* the loop over xml.getElementsByTagName("track"): the index of the first
\* track with uid "video"; a track without uid attribute met before it makes
\* track.attributes["uid"] raise KeyError

FindVideoTrack(tracks) ==
    LET stops == {i \in 1..Len(tracks) :
                     tracks[i].uid = None \/ tracks[i].uid = Some("video")}
    IN IF stops = {} THEN [status |-> "none", index |-> 0]
       ELSE LET i == CHOOSE j \in stops : \A k \in stops : j <= k
            IN IF tracks[i].uid = None
               THEN [status |-> "keyerror", index |-> i]
               ELSE [status |-> "found", index |-> i]

\* fault: the feed's vuid is a version name of its own, as in Flame's exports
FeedWithOwnVuid(unique_id, path) ==
    [uid |-> unique_id, vuid |-> FlameUid(2), path |-> path]

\* feed_node: <feed type="feed" uid=unique_id vuid=unique_id> with one span path
FeedNode(unique_id, path) ==
    [uid |-> unique_id, vuid |-> unique_id, path |-> path]

\* version_node: <version type="version" uid=unique_id> name, creationDate
VersionNode(unique_id, name, date) ==
    [uid |-> unique_id, name |-> name, creationDate |-> date]

\* fault: the node becomes the first child
InsertFirstChild(list, node) ==
    [list EXCEPT !.children = <<node>> \o @]

\* fault: a feed whose path is already in the list is not added again
AppendChildUnlessSamePath(list, node) ==
    IF \E i \in 1..Len(list.children) :
          "path" \in DOMAIN list.children[i] /\ "path" \in DOMAIN node
          /\ list.children[i].path = node.path
    THEN list
    ELSE [list EXCEPT !.children = Append(@, node)]

\* fault: appending a node makes it the current version of the list
AppendChildSetCurrent(list, node) ==
    [list EXCEPT !.children = Append(@, node), !.currentVersion = node.uid]

\* Node.appendChild(node)
AppendChild(list, node) ==
    [list EXCEPT !.children = Append(@, node)]

\* track.getElementsByTagName("feeds")[0].appendChild(feed_node)
AddFeed(doc, i, feed_node) ==
    [doc EXCEPT !.tracks[i].feeds[1] = AppendChild(@, feed_node)]

\* xml.getElementsByTagName("versions")[0].appendChild(version_node)
AddVersion(doc, version_node) ==
    [doc EXCEPT !.versions[1] = AppendChild(@, version_node)]

(***************************************************************************)
(* Clip files the hook can be pointed at                                   *)
(***************************************************************************)
OldFeed(n) == [uid |-> FlameUid(10 + n), vuid |-> FlameUid(n),
               path |-> PublishPathFlame(100, 269, SequenceKeyFormatSpec)]
OldVersion(n) == [uid |-> FlameUid(n), name |-> <<"v">> \o FormatInt(n, 3),
                  creationDate |-> 0]
Feeds(children) == [currentVersion |-> FlameUid(1), children |-> children]
VersionsList(children) == [currentVersion |-> FlameUid(1), children |-> children]
Track(uid, feeds) == [uid |-> uid, feeds |-> feeds]

\* the clip of the docstring: one video track, two feeds, two versions
DocExported ==
    [tracks |-> << Track(Some("video"), << Feeds(<<OldFeed(0), OldFeed(1)>>) >>) >>,
     versions |-> << VersionsList(<<OldVersion(0), OldVersion(1)>>) >>]
\* an audio track first, two video tracks, further feeds and versions lists
DocManyTracks ==
    [tracks |-> << Track(Some("audio"), << Feeds(<<OldFeed(0)>>) >>),
                   Track(Some("video"), << Feeds(<<OldFeed(1)>>), Feeds(<< >>) >>),
                   Track(Some("video"), << Feeds(<<OldFeed(0)>>) >>) >>,
     versions |-> << VersionsList(<<OldVersion(1)>>), VersionsList(<< >>) >>]
DocNoVideoTrack ==
    [tracks |-> << Track(Some("audio"), << Feeds(<<OldFeed(0)>>) >>) >>,
     versions |-> << VersionsList(<<OldVersion(0)>>) >>]
DocTrackWithoutUid ==
    [tracks |-> << Track(None, << Feeds(<< >>) >>),
                   Track(Some("video"), << Feeds(<<OldFeed(0)>>) >>) >>,
     versions |-> << VersionsList(<<OldVersion(0)>>) >>]
DocNoFeeds ==
    [tracks |-> << Track(Some("video"), << >>) >>,
     versions |-> << VersionsList(<<OldVersion(0)>>) >>]
DocNoVersions ==
    [tracks |-> << Track(Some("video"), << Feeds(<<OldFeed(0)>>) >>) >>,
     versions |-> << >>]

InitClips ==
    {XmlFile(d, "flame") : d \in {DocExported, DocManyTracks, DocNoVideoTrack,
                                  DocTrackWithoutUid, DocNoFeeds, DocNoVersions}}
    \cup {GarbageFile}

\* ---- bounds ------------------------------------------------------------
MaxCalls == 3        \* calls of _update_flame_clip in one run
MaxClock == 1        \* last second of the wall clock
NumCallers == 2      \* processes that may call the hook

Callers == 1..NumCallers
Timestamps == 0..MaxClock

\* frame numbers discovered on disk, in the order the paths are returned
FrameLists == { << >>, <<100, 150, 120>>, <<7>> }
\* the context and the render path fields of a call
ClipContext == [task |-> Some(S_comp), step |-> Some(S_Lighting)]
ClipFields == {[name |-> Some(S_scene), channel |-> None, version |-> Some(v)] :
                  v \in {3}}

NoLocals ==
    [frames |-> << >>, path |-> None, fields |-> None, xml |-> None, unique_id |-> None,
     xml_string |-> None, backup_path |-> None, backup_failed |-> FALSE,
     err |-> "", orig |-> NoFile, backups0 |-> [t \in Timestamps |-> NoFile]]

ClipInit ==
    /\ clip \in InitClips
    /\ clip0 = clip
    /\ backups = [t \in Timestamps |-> NoFile]
    /\ now = 0
    /\ next_uuid = 0
    /\ pc = [p \in Callers |-> "idle"]
    /\ loc = [p \in Callers |-> NoLocals]
    /\ calls = 0
    /\ published = << >>
    /\ completed = << >>

\* the state in which no clip is being updated (name generation on its own)
ClipIdle ==
    /\ clip = GarbageFile
    /\ clip0 = GarbageFile
    /\ backups = [t \in Timestamps |-> NoFile]
    /\ now = 0
    /\ next_uuid = 0
    /\ pc = [p \in Callers |-> "idle"]
    /\ loc = [p \in Callers |-> NoLocals]
    /\ calls = 0
    /\ published = << >>
    /\ completed = << >>

RangeIdle ==
    /\ range_frames = << >>
    /\ range_format = SequenceKeyFormatSpec
    /\ range_out = None

HookIdle ==
    /\ h_hook = "publish"
    /\ h_tasks = << >>
    /\ h_tasks0 = << >>
    /\ h_env = [write_node_app |-> TRUE, review_submission_app |-> TRUE,
                clip_exists |-> TRUE]
    /\ h_pc = "returned"
    /\ h_todo = << >>
    /\ h_render_publishes = {}
    /\ h_results = << >>
    /\ h_log = << >>
    /\ h_processed = << >>

GenIdle ==
    /\ gen_context = [task |-> None, step |-> None]
    /\ gen_fields = [name |-> None, channel |-> None, version |-> None]
    /\ gen_result = None

(***************************************************************************)
(* _update_flame_clip(clip_path, write_node, sg_publish, progress_cb),     *)
(* one action per access to the file system                                *)
(***************************************************************************)
\* the locals on entry, with the files as the call finds them (history)
Enter == [NoLocals EXCEPT !.orig = clip, !.backups0 = backups]

\* line 641
FramesMissing(range) == range.min = None \/ range.max = None

\* fault: the frames are only checked once the backup has been made
NoFramesAfterBackup(p, frames) ==
    /\ pc[p] = "idle"
    /\ calls < MaxCalls
    /\ FramesMissing(ScanFrames(frames, None, None))
    /\ calls' = calls + 1
    /\ backups' = [backups EXCEPT ![now] = CopyFile(clip)]
    /\ pc' = [pc EXCEPT ![p] = "raised"]
    /\ loc' = [loc EXCEPT ![p] = [Enter EXCEPT !.err = "no_frames"]]
    /\ UNCHANGED <<clip, now, next_uuid, clip0, published, completed, gen_vars, range_vars, hook_vars>>

\* lines 608-645, no frame found: TankError, nothing else has happened
NoFrames(p, frames) ==
    /\ pc[p] = "idle"
    /\ calls < MaxCalls
    /\ FramesMissing(ScanFrames(frames, None, None))
    /\ calls' = calls + 1
    /\ pc' = [pc EXCEPT ![p] = "raised"]
    /\ loc' = [loc EXCEPT ![p] = [Enter EXCEPT !.err = "no_frames"]]
    /\ UNCHANGED <<clip, backups, now, next_uuid, clip0, published, completed, gen_vars, range_vars, hook_vars>>

\* lines 608-663, frames found: the Flame path of the published sequence
FramesFound(p, frames, fields) ==
    /\ pc[p] = "idle"
    /\ calls < MaxCalls
    /\ LET range == ScanFrames(frames, None, None)
       IN /\ ~FramesMissing(range)
          /\ loc' = [loc EXCEPT ![p] =
                        [Enter EXCEPT
                            !.frames = frames,
                            !.path = Some(PublishPathFlame(range.min[1], range.max[1],
                                                           SequenceKeyFormatSpec)),
                            !.fields = Some(fields)]]
    /\ calls' = calls + 1
    /\ pc' = [pc EXCEPT ![p] = "parse"]
    /\ UNCHANGED <<clip, backups, now, next_uuid, clip0, published, completed, gen_vars, range_vars, hook_vars>>

\* line 666: xml = minidom.parse(clip_path)
ParseClip(p) ==
    /\ pc[p] = "parse"
    /\ IF CanParse(clip)
       THEN /\ pc' = [pc EXCEPT ![p] = "update"]
            /\ loc' = [loc EXCEPT ![p].xml = Some(MinidomParse(clip))]
       ELSE /\ pc' = [pc EXCEPT ![p] = "raised"]
            /\ loc' = [loc EXCEPT ![p].err = "parse"]
    /\ UNCHANGED <<clip, backups, now, next_uuid, calls, clip0, published, completed, gen_vars, range_vars, hook_vars>>

\* the three lookups of lines 668-676, 716 and 751 all find their element
LookupOk(xml) ==
    LET found == FindVideoTrack(xml.tracks)
    IN /\ found.status = "found"
       /\ xml.tracks[found.index].feeds # << >>
       /\ xml.versions # << >>

\* lines 668-752: find the video track, build the feed and the version node
\* around one fresh unique id, append both, serialize
UpdateDocument(p) ==
    /\ pc[p] = "update"
    /\ LET xml == loc[p].xml[1]
           found == FindVideoTrack(xml.tracks)
           unique_id == Uuid4(next_uuid)
           feed_node == FeedNode(unique_id, loc[p].path[1])
           version_node ==
               VersionNode(unique_id,
                           GenerateFlameClipName(ClipContext, loc[p].fields[1]),
                           now)
       IN IF found.status # "found"
          THEN /\ pc' = [pc EXCEPT ![p] = "raised"]
               /\ loc' = [loc EXCEPT ![p].err =
                             IF found.status = "keyerror" THEN "KeyError"
                             ELSE "no_video_track"]
               /\ UNCHANGED next_uuid
          ELSE /\ next_uuid' = next_uuid + 1
               /\ IF xml.tracks[found.index].feeds = << >>
                  THEN /\ pc' = [pc EXCEPT ![p] = "raised"]
                       /\ loc' = [loc EXCEPT ![p].err = "no_feeds",
                                             ![p].unique_id = Some(unique_id)]
                  ELSE IF xml.versions = << >>
                  THEN /\ pc' = [pc EXCEPT ![p] = "raised"]
                       /\ loc' = [loc EXCEPT
                                     ![p].err = "no_versions",
                                     ![p].unique_id = Some(unique_id),
                                     ![p].xml = Some(AddFeed(xml, found.index, feed_node))]
                  ELSE LET updated == AddVersion(AddFeed(xml, found.index, feed_node),
                                                 version_node)
                       IN /\ pc' = [pc EXCEPT ![p] = "backup"]
                          /\ loc' = [loc EXCEPT
                                        ![p].unique_id = Some(unique_id),
                                        ![p].xml = Some(updated),
                                        ![p].xml_string = Some(ToXml(updated))]
    /\ UNCHANGED <<clip, backups, now, calls, clip0, published, completed, gen_vars, range_vars, hook_vars>>

\* fault: the document is serialized into the file already opened for writing
SerializeFailsAfterOpen(p) ==
    /\ pc[p] = "update"
    /\ LookupOk(loc[p].xml[1])
    /\ next_uuid' = next_uuid + 1
    /\ clip' = EmptyFile
    /\ pc' = [pc EXCEPT ![p] = "raised"]
    /\ loc' = [loc EXCEPT ![p].err = "serialize",
                          ![p].unique_id = Some(Uuid4(next_uuid))]
    /\ UNCHANGED <<backups, now, calls, clip0, published, completed, gen_vars, range_vars, hook_vars>>

\* line 752: xml.toxml(encoding="UTF-8") raises (a text that cannot be encoded)
SerializeFails(p) ==
    /\ pc[p] = "update"
    /\ LookupOk(loc[p].xml[1])
    /\ next_uuid' = next_uuid + 1
    /\ pc' = [pc EXCEPT ![p] = "raised"]
    /\ loc' = [loc EXCEPT ![p].err = "serialize",
                          ![p].unique_id = Some(Uuid4(next_uuid))]
    /\ UNCHANGED <<clip, backups, now, calls, clip0, published, completed, gen_vars, range_vars, hook_vars>>

\* fault: a backup that exists already is kept
BackupClipKeepExisting(p) ==
    /\ pc[p] = "backup"
    /\ backups' = IF backups[now] = NoFile
                  THEN [backups EXCEPT ![now] = CopyFile(clip)]
                  ELSE backups
    /\ pc' = [pc EXCEPT ![p] = "open"]
    /\ loc' = [loc EXCEPT ![p].backup_path = Some(now)]
    /\ UNCHANGED <<clip, now, next_uuid, calls, clip0, published, completed, gen_vars,
                   range_vars, hook_vars>>

\* lines 761-763: the copy to <clip_path>.bak_<now> succeeds; shutil.copy
\* overwrites a file that is already at the backup path
BackupClip(p) ==
    /\ pc[p] = "backup"
    /\ backups' = [backups EXCEPT ![now] = CopyFile(clip)]
    /\ pc' = [pc EXCEPT ![p] = "open"]
    /\ loc' = [loc EXCEPT ![p].backup_path = Some(now)]
    /\ UNCHANGED <<clip, now, next_uuid, calls, clip0, published, completed, gen_vars, range_vars, hook_vars>>

\* fault: the exception of the copy is swallowed and the update goes on
BackupFailsIgnored(p, leftover) ==
    /\ pc[p] = "backup"
    /\ backups' = IF leftover THEN [backups EXCEPT ![now] = PartialFile] ELSE backups
    /\ pc' = [pc EXCEPT ![p] = "open"]
    /\ loc' = [loc EXCEPT ![p].backup_failed = TRUE,
                          ![p].backup_path = Some(now)]
    /\ UNCHANGED <<clip, now, next_uuid, calls, clip0, published, completed, gen_vars, range_vars, hook_vars>>

\* lines 764-765: the copy raises and the hook raises TankError; the copy may
\* have left a cut-off file at the backup path
BackupFails(p, leftover) ==
    /\ pc[p] = "backup"
    /\ backups' = IF leftover THEN [backups EXCEPT ![now] = PartialFile] ELSE backups
    /\ pc' = [pc EXCEPT ![p] = "raised"]
    /\ loc' = [loc EXCEPT ![p].backup_failed = TRUE,
                          ![p].backup_path = Some(now),
                          ![p].err = "backup"]
    /\ UNCHANGED <<clip, now, next_uuid, calls, clip0, published, completed, gen_vars, range_vars, hook_vars>>

\* line 767: open(clip_path, "wt") truncates the file
OpenForWrite(p) ==
    /\ pc[p] = "open"
    /\ clip' = EmptyFile
    /\ pc' = [pc EXCEPT ![p] = "write"]
    /\ UNCHANGED <<backups, now, next_uuid, loc, calls, clip0, published, completed, gen_vars, range_vars, hook_vars>>

\* line 767: open raises (no permission): the file is as it was
OpenFails(p) ==
    /\ pc[p] = "open"
    /\ pc' = [pc EXCEPT ![p] = "raised"]
    /\ loc' = [loc EXCEPT ![p].err = "open"]
    /\ UNCHANGED <<clip, backups, now, next_uuid, calls, clip0, published, completed, gen_vars, range_vars, hook_vars>>

\* fault: the write reads the file again and appends its two nodes to the
\* document it finds there
WriteClipMerged(p) ==
    /\ pc[p] = "write"
    /\ LET mine == loc[p].xml[1]
           i == FindVideoTrack(mine.tracks).index
           feed_node == mine.tracks[i].feeds[1].children[Len(mine.tracks[i].feeds[1].children)]
           version_node == mine.versions[1].children[Len(mine.versions[1].children)]
       IN clip' = IF CanParse(clip) /\ LookupOk(MinidomParse(clip))
                  THEN ToXml(AddVersion(AddFeed(MinidomParse(clip), i, feed_node),
                                        version_node))
                  ELSE loc[p].xml_string[1]
    /\ pc' = [pc EXCEPT ![p] = "done"]
    /\ published' = Append(published, loc[p].unique_id[1])
    /\ completed' = Append(completed, [uid |-> loc[p].unique_id[1],
                                       backup_path |-> loc[p].backup_path,
                                       before |-> loc[p].orig])
    /\ UNCHANGED <<backups, now, next_uuid, loc, calls, clip0, gen_vars, range_vars,
                   hook_vars>>

\* lines 768-771: the whole text is written and the file closed
WriteClip(p) ==
    /\ pc[p] = "write"
    /\ clip' = loc[p].xml_string[1]
    /\ pc' = [pc EXCEPT ![p] = "done"]
    /\ published' = Append(published, loc[p].unique_id[1])
    /\ completed' = Append(completed, [uid |-> loc[p].unique_id[1],
                                       backup_path |-> loc[p].backup_path,
                                       before |-> loc[p].orig])
    /\ UNCHANGED <<backups, now, next_uuid, loc, calls, clip0, gen_vars, range_vars,
                   hook_vars>>

\* lines 768-771: write or close raises (disk full, I/O error): the file holds
\* nothing or the beginning of the text
WriteFails(p, written) ==
    /\ pc[p] = "write"
    /\ clip' = written
    /\ pc' = [pc EXCEPT ![p] = "raised"]
    /\ loc' = [loc EXCEPT ![p].err = "write"]
    /\ UNCHANGED <<backups, now, next_uuid, calls, clip0, published, completed, gen_vars, range_vars, hook_vars>>

\* the call returns, or its exception reaches the caller (execute, line 225)
Return(p) ==
    /\ pc[p] \in {"done", "raised"}
    /\ pc' = [pc EXCEPT ![p] = "idle"]
    /\ loc' = [loc EXCEPT ![p] = NoLocals]
    /\ UNCHANGED <<clip, backups, now, next_uuid, calls, clip0, published, completed, gen_vars, range_vars, hook_vars>>

\* a second of wall clock time passes
Tick ==
    /\ now < MaxClock
    /\ now' = now + 1
    /\ UNCHANGED <<clip, backups, next_uuid, pc, loc, calls, clip0, published, completed, gen_vars, range_vars, hook_vars>>

\* no other call is in progress: the hook is single threaded and execute
\* runs the tasks one after the other (lines 140-143)
NoCallInProgress == \A q \in Callers : pc[q] = "idle"

Step(p) ==
    \/ ParseClip(p)
    \/ UpdateDocument(p)
    \/ SerializeFails(p)
    \/ BackupClip(p)
    \/ \E leftover \in BOOLEAN : BackupFails(p, leftover)
    \/ OpenForWrite(p)
    \/ OpenFails(p)
    \/ WriteClip(p)
    \/ \E written \in {EmptyFile, PartialFile} : WriteFails(p, written)
    \/ Return(p)

CallNoFrames(p) ==
    /\ NoCallInProgress
    /\ \E frames \in FrameLists : NoFrames(p, frames)

CallFramesFound(p) ==
    /\ NoCallInProgress
    /\ \E frames \in FrameLists, fields \in ClipFields : FramesFound(p, frames, fields)

Next ==
    \/ \E p \in Callers : CallNoFrames(p) \/ CallFramesFound(p) \/ Step(p)
    \/ Tick

Init == GenIdle /\ ClipInit /\ RangeIdle /\ HookIdle

Spec == Init /\ [][Next]_vars

(***************************************************************************)
(* Calls made by several publishers at once on the same clip file: nothing *)
(* in lines 665-771 takes a lock, so a call can start and take its steps   *)
(* while another one is between its parse and its write                    *)
(***************************************************************************)
\* the two publishers; each makes one call
Writers == {p \in Callers : p <= 2}

ConcurrentCallNoFrames(p) ==
    /\ calls < Cardinality(Writers)
    /\ \E frames \in FrameLists : NoFrames(p, frames)

ConcurrentCallFramesFound(p) ==
    /\ calls < Cardinality(Writers)
    /\ \E fields \in ClipFields : FramesFound(p, <<7>>, fields)

ConcurrentNext ==
    \/ \E p \in Writers :
          ConcurrentCallNoFrames(p) \/ ConcurrentCallFramesFound(p) \/ Step(p)
    \/ Tick

\* the publishers share a clip that Flame exported
ConcurrentInit ==
    /\ GenIdle /\ ClipInit /\ RangeIdle /\ HookIdle
    /\ clip = XmlFile(DocExported, "flame")

SpecConcurrent == ConcurrentInit /\ [][ConcurrentNext]_vars

\* _generate_flame_clip_name on its own, over its inputs
NameNext == GenerateName /\ UNCHANGED <<clip_vars, range_vars, hook_vars>>

NameInit == GenInit /\ ClipIdle /\ RangeIdle /\ HookIdle

SpecName == NameInit /\ [][NameNext]_vars

(***************************************************************************)
(* The frame range and the Flame path of lines 630-663 on their own, over  *)
(* frame lists in every order and over the widths of the SEQ key           *)
(***************************************************************************)
MaxFrames == 3       \* discovered paths of one call
MaxFrame == 4        \* largest frame number of the enumerated lists
MaxFormatSpec == 4   \* widest format spec of the SEQ key ("04")

\* a frame number can occur twice (one path per eye); two lists of larger
\* numbers, one of them wider than every format spec
RangeInputs ==
    UNION { [1..n -> 0..MaxFrame] : n \in 0..MaxFrames }
    \cup { <<100, 150, 120>>, <<12345, 7>> }

RangeInit ==
    /\ range_frames \in RangeInputs
    /\ range_format \in 1..MaxFormatSpec
    /\ range_out = None

\* lines 630-663: min_frame and max_frame, the TankError of line 644 when there
\* is no frame, else the path with the SEQ field set to the formatted range
DeriveRange ==
    /\ range_out = None
    /\ LET range == ScanFrames(range_frames, None, None)
       IN range_out' =
             Some(IF FramesMissing(range)
                  THEN [min |-> None, max |-> None, path |-> None, raised |-> TRUE]
                  ELSE [min |-> range.min, max |-> range.max,
                        path |-> Some(PublishPathFlame(range.min[1], range.max[1],
                                                       range_format)),
                        raised |-> FALSE])
    /\ UNCHANGED <<range_frames, range_format, gen_vars, clip_vars, hook_vars>>

RangeSpecInit == RangeInit /\ GenIdle /\ ClipIdle /\ HookIdle

SpecRange == RangeSpecInit /\ [][DeriveRange]_vars

(***************************************************************************)
(* execute of the publish hook and of the pre-publish hook: one call on a  *)
(* list of secondary tasks                                                 *)
(***************************************************************************)
MaxTasks == 3        \* tasks passed to one call of execute

\* names of the nuke write nodes
S_Write1 == "Write1"
S_Write2 == "Write2"

\* a task as execute reads it: task["item"]["other_params"].get("node"), by
\* the name of the node, and task["output"]["name"]
Task(node, output) == [node |-> node, output |-> output]

\* "if not write_node" is false for a node object
HasNode(task) == task.node # None

HookTasks ==
    { Task(Some(S_Write1), "render"), Task(Some(S_Write2), "render"),
      Task(None, "render"),
      Task(Some(S_Write1), "quicktime"), Task(None, "quicktime"),
      Task(Some(S_Write1), "flame"),
      Task(None, "alembic") }

TaskLists == UNION { [1..n -> HookTasks] : n \in 0..MaxTasks }

\* the apps found in the engine and the clip file of the context
HookEnvs(hook) ==
    { e \in [write_node_app : BOOLEAN, review_submission_app : BOOLEAN,
             clip_exists : BOOLEAN] :
        IF hook = "publish" THEN e.clip_exists ELSE e.review_submission_app }

\* execute is called: results = []
HookInit ==
    /\ h_hook \in {"publish", "pre_publish"}
    /\ h_tasks \in TaskLists
    /\ h_tasks0 = h_tasks
    /\ h_env \in HookEnvs(h_hook)
    /\ h_pc = "start"
    /\ h_todo = << >>
    /\ h_render_publishes = {}
    /\ h_results = << >>
    /\ h_log = << >>
    /\ h_processed = << >>

\* fault: the tasks of one output are taken last first
TasksByOutputReversed(tasks, output_name) ==
    LET HasOutput(i) == tasks[i].output = output_name
        found == SelectSeq([i \in 1..Len(tasks) |-> i], HasOutput)
    IN [k \in 1..Len(found) |-> found[Len(found) + 1 - k]]

\* the positions of the tasks of one output, in the order of the list
\* (tasks_by_output[output_name])
TasksByOutput(tasks, output_name) ==
    LET HasOutput(i) == tasks[i].output = output_name
    IN SelectSeq([i \in 1..Len(tasks) |-> i], HasOutput)

RECURSIVE OutputOrderFrom(_, _, _)
OutputOrderFrom(tasks, i, output_order) ==
    IF i > Len(tasks) THEN output_order
    ELSE OutputOrderFrom(tasks, i + 1,
            IF \E k \in 1..Len(output_order) : output_order[k] = tasks[i].output
            THEN output_order
            ELSE Append(output_order, tasks[i].output))

\* fault: the outputs are taken in the order the task list names them
OutputOrderAsListed(tasks) == OutputOrderFrom(tasks, 1, << >>)

\* lines 115-121: render, quicktime, then every other output in the order of
\* its first task
OutputOrder(tasks) == OutputOrderFrom(tasks, 1, <<"render", "quicktime">>)

RECURSIVE ProcessingOrderFrom(_, _, _)
ProcessingOrderFrom(tasks, output_order, k) ==
    IF k > Len(output_order) THEN << >>
    ELSE TasksByOutput(tasks, output_order[k])
            \o ProcessingOrderFrom(tasks, output_order, k + 1)

\* lines 140-143: the two nested loops
ProcessingOrder(tasks) == ProcessingOrderFrom(tasks, OutputOrder(tasks), 1)

HasOutputTask(tasks, output_name) == TasksByOutput(tasks, output_name) # << >>

\* fault: the review app is only looked for when a quicktime task is run
MissingAppWriteNodeOnly(tasks, env) ==
    /\ HasOutputTask(tasks, "render") \/ HasOutputTask(tasks, "quicktime")
    /\ ~env.write_node_app

\* lines 123-132: an app the task list needs is not there
MissingApp(tasks, env) ==
    \/ /\ HasOutputTask(tasks, "render") \/ HasOutputTask(tasks, "quicktime")
       /\ ~env.write_node_app
    \/ /\ HasOutputTask(tasks, "quicktime")
       /\ ~env.review_submission_app

\* fault: every task gets an entry in the report
AddResultAlways(results, task, errors) ==
    Append(results, [task |-> task, errors |-> errors])

\* lines 235-238 (pre-publish 132-135)
AddResult(results, task, errors) ==
    IF Len(errors) > 0
    THEN Append(results, [task |-> task, errors |-> errors])
    ELSE results

Event(ev, task) == [ev |-> ev, task |-> task]

\* the body of the loop from progress_cb(0.0, ...) to progress_cb(100)
FinishTask(task, events, errors) ==
    /\ h_log' = h_log \o <<Event("start", task)>> \o events \o <<Event("done", task)>>
    /\ h_processed' = Append(h_processed, [task |-> task, errors |-> errors])
    /\ h_results' = AddResult(h_results, task, errors)
    /\ h_todo' = Tail(h_todo)
    /\ UNCHANGED <<h_hook, h_tasks, h_tasks0, h_env, h_pc>>

\* a TankError raised in the body of the loop, outside any try
RaiseInTask(task) ==
    /\ h_log' = Append(h_log, Event("start", task))
    /\ h_pc' = "raised"
    /\ UNCHANGED <<h_hook, h_tasks, h_tasks0, h_env, h_todo, h_render_publishes,
                   h_results, h_processed>>

\* ---- PublishHook.execute ----------------------------------------------
\* lines 123-132: TankError before the loop
PublishAppMissing ==
    /\ h_hook = "publish" /\ h_pc = "start"
    /\ MissingApp(h_tasks, h_env)
    /\ h_pc' = "raised"
    /\ UNCHANGED <<h_hook, h_tasks, h_tasks0, h_env, h_todo, h_render_publishes,
                   h_results, h_log, h_processed, gen_vars, clip_vars, range_vars>>

\* lines 108-137: the tasks are grouped, the apps are there
PublishBegin ==
    /\ h_hook = "publish" /\ h_pc = "start"
    /\ ~MissingApp(h_tasks, h_env)
    /\ h_pc' = "loop"
    /\ h_todo' = ProcessingOrder(h_tasks)
    /\ UNCHANGED <<h_hook, h_tasks, h_tasks0, h_env, h_render_publishes,
                   h_results, h_log, h_processed, gen_vars, clip_vars, range_vars>>

InPublishLoop(output_names) ==
    /\ h_hook = "publish" /\ h_pc = "loop"
    /\ h_todo # << >>
    /\ h_tasks[Head(h_todo)].output \in output_names

\* lines 156-158, 179-181, 207-209: the task has no write node
PublishNodeMissing ==
    /\ InPublishLoop({"render", "quicktime", "flame"})
    /\ ~HasNode(h_tasks[Head(h_todo)])
    /\ RaiseInTask(Head(h_todo))
    /\ UNCHANGED <<gen_vars, clip_vars, range_vars>>

\* the numbers of files get_node_render_files can return for a node
RenderFileCounts == {0, 2}

\* _publish_write_node_render (lines 312-386) ends at the lock test, in the
\* copy of one of the render files (after `copied` of them), in the
\* registration, or returns the publish
RenderOutcomes ==
    {[result |-> "locked", files |-> 0, copied |-> 0]}
    \cup UNION {{[result |-> "copy_failed", files |-> n, copied |-> k] :
                    k \in 0..(n - 1)} : n \in RenderFileCounts}
    \cup {[result |-> r, files |-> n, copied |-> n] :
             r \in {"register_failed", "published"}, n \in RenderFileCounts}

Repeat(e, n) == [k \in 1..n |-> e]

\* fault: a file that cannot be copied is skipped and the publish registered
RenderEventsCopyErrorSkipped(task, outcome) ==
    IF outcome.result = "locked" THEN <<Event("locked", task)>>
    ELSE Repeat(Event("file", task), outcome.files)
         \o Repeat(Event("copy", task), outcome.copied)
         \o (IF outcome.result = "copy_failed"
             THEN <<Event("copy_error", task)>> ELSE << >>)
         \o <<Event("register", task)>>

\* what the call asks of its collaborators, in order: the lock test (317),
\* the render files found (324), a copy_file per file (334-349), then
\* register_publish (377-384)
RenderEvents(task, outcome) ==
    IF outcome.result = "locked" THEN <<Event("locked", task)>>
    ELSE Repeat(Event("file", task), outcome.files)
         \o Repeat(Event("copy", task), outcome.copied)
         \o (IF outcome.result = "copy_failed"
             THEN <<Event("copy_error", task)>>
             ELSE <<Event("register", task)>>)

\* fault: the node is stored for the later tasks whether or not its publish
\* succeeded
PublishRenderAlwaysStored(outcome) ==
    /\ InPublishLoop({"render"})
    /\ HasNode(h_tasks[Head(h_todo)])
    /\ LET task == Head(h_todo)
       IN /\ h_render_publishes' = h_render_publishes \cup {h_tasks[task].node[1]}
          /\ FinishTask(task, RenderEvents(task, outcome),
                        IF outcome.result = "published" THEN << >>
                        ELSE <<"Publish failed">>)
    /\ UNCHANGED <<gen_vars, clip_vars, range_vars>>

\* lines 151-172
PublishRender(outcome) ==
    /\ InPublishLoop({"render"})
    /\ HasNode(h_tasks[Head(h_todo)])
    /\ LET task == Head(h_todo)
       IN IF outcome.result = "published"
          THEN /\ h_render_publishes' = h_render_publishes \cup {h_tasks[task].node[1]}
               /\ FinishTask(task, RenderEvents(task, outcome), << >>)
          ELSE /\ UNCHANGED h_render_publishes
               /\ FinishTask(task, RenderEvents(task, outcome), <<"Publish failed">>)
    /\ UNCHANGED <<gen_vars, clip_vars, range_vars>>

\* lines 174-200: the publish of the node's render is looked up (KeyError
\* when there is none), then the review app renders and submits
PublishQuicktime(submitted) ==
    /\ InPublishLoop({"quicktime"})
    /\ HasNode(h_tasks[Head(h_todo)])
    /\ LET task == Head(h_todo)
       IN IF h_tasks[task].node[1] \notin h_render_publishes
          THEN FinishTask(task, << >>, <<"Submit to Screening Room failed">>)
          ELSE IF submitted /\ h_env.review_submission_app
          THEN FinishTask(task, <<Event("review", task)>>, << >>)
          ELSE FinishTask(task, <<Event("review", task)>>,
                          <<"Submit to Screening Room failed">>)
    /\ UNCHANGED <<h_render_publishes, gen_vars, clip_vars, range_vars>>

\* lines 202-228: the publish of the node's render is looked up, then
\* _update_flame_clip returns or raises
PublishFlame(updated) ==
    /\ InPublishLoop({"flame"})
    /\ HasNode(h_tasks[Head(h_todo)])
    /\ LET task == Head(h_todo)
       IN IF h_tasks[task].node[1] \notin h_render_publishes
          THEN FinishTask(task, << >>, <<"Could not update Flame clip xml">>)
          ELSE IF updated
          THEN FinishTask(task, <<Event("clip", task)>>, << >>)
          ELSE FinishTask(task, <<Event("clip", task)>>,
                          <<"Could not update Flame clip xml">>)
    /\ UNCHANGED <<h_render_publishes, gen_vars, clip_vars, range_vars>>

\* lines 231-233
PublishOther ==
    /\ h_hook = "publish" /\ h_pc = "loop"
    /\ h_todo # << >>
    /\ h_tasks[Head(h_todo)].output \notin {"render", "quicktime", "flame"}
    /\ FinishTask(Head(h_todo), << >>, <<"Don't know how to publish this item!">>)
    /\ UNCHANGED <<h_render_publishes, gen_vars, clip_vars, range_vars>>

\* ---- PrePublishHook.execute ---------------------------------------------
\* lines 74-80: the tasks are validated in the order of the list
PrePublishBegin ==
    /\ h_hook = "pre_publish" /\ h_pc = "start"
    /\ h_pc' = "loop"
    /\ h_todo' = [i \in 1..Len(h_tasks) |-> i]
    /\ UNCHANGED <<h_hook, h_tasks, h_tasks0, h_env, h_render_publishes,
                   h_results, h_log, h_processed, gen_vars, clip_vars, range_vars>>

InPrePublishLoop(output_names) ==
    /\ h_hook = "pre_publish" /\ h_pc = "loop"
    /\ h_todo # << >>
    /\ h_tasks[Head(h_todo)].output \in output_names

\* fault: any render task of the list will do
GetAnyRenderTask(tasks, ref) ==
    LET found == TasksByOutput(tasks, "render")
    IN IF found = << >> THEN None ELSE Some(Head(found))

\* _get_render_task_for_task, lines 141-158: the first render task whose node
\* has the name of the node of ref
GetRenderTaskForTask(tasks, ref) ==
    LET Matches(i) ==
            /\ tasks[i].output = "render"
            /\ HasNode(tasks[i]) /\ HasNode(ref)
            /\ tasks[i].node[1] = ref.node[1]
        found == SelectSeq([i \in 1..Len(tasks) |-> i], Matches)
    IN IF found = << >> THEN None ELSE Some(Head(found))

\* _nuke_pre_publish_write_node_render, lines 160-214: the lock test, then
\* the render files are missing, new, published already, or cannot be listed
RenderFileStates == {"none", "new", "existing", "exception"}

\* fault: a locked render path is not reported
NukePrePublishIgnoresLock(locked, files) ==
    IF files = "none" THEN <<"No render files exist to be published!">>
    ELSE IF files = "existing" THEN <<"Published render file already exists!">>
    ELSE IF files = "exception" THEN <<"Unhandled exception">>
    ELSE << >>

NukePrePublishWriteNodeRender(locked, files) ==
    (IF locked THEN <<"The render path is currently locked">> ELSE << >>)
    \o (IF files = "none" THEN <<"No render files exist to be published!">>
        ELSE IF files = "existing" THEN <<"Published render file already exists!">>
        ELSE IF files = "exception" THEN <<"Unhandled exception">>
        ELSE << >>)

\* lines 89-101
PrePublishRender(locked, files) ==
    /\ InPrePublishLoop({"render"})
    /\ LET task == Head(h_todo)
       IN IF ~h_env.write_node_app
          THEN FinishTask(task, << >>, <<"Unable to validate write node">>)
          ELSE IF ~HasNode(h_tasks[task])
          THEN FinishTask(task, << >>, <<"Could not find nuke node for item">>)
          ELSE FinishTask(task,
                          (IF locked THEN <<Event("locked", task)>> ELSE << >>)
                             \o <<Event(files, task)>>,
                          NukePrePublishWriteNodeRender(locked, files))
    /\ UNCHANGED <<h_render_publishes, gen_vars, clip_vars, range_vars>>

\* lines 103-107
PrePublishQuicktime ==
    /\ InPrePublishLoop({"quicktime"})
    /\ LET task == Head(h_todo)
       IN IF GetRenderTaskForTask(h_tasks, h_tasks[task]) = None
          THEN RaiseInTask(task)
          ELSE /\ FinishTask(task, << >>, << >>)
               /\ UNCHANGED h_render_publishes
    /\ UNCHANGED <<gen_vars, clip_vars, range_vars>>

\* lines 109-125
PrePublishFlame ==
    /\ InPrePublishLoop({"flame"})
    /\ LET task == Head(h_todo)
       IN IF GetRenderTaskForTask(h_tasks, h_tasks[task]) = None
          THEN RaiseInTask(task)
          ELSE IF ~h_env.clip_exists
          THEN RaiseInTask(task)
          ELSE /\ FinishTask(task, << >>, << >>)
               /\ UNCHANGED h_render_publishes
    /\ UNCHANGED <<gen_vars, clip_vars, range_vars>>

\* lines 127-130
PrePublishOther ==
    /\ h_hook = "pre_publish" /\ h_pc = "loop"
    /\ h_todo # << >>
    /\ h_tasks[Head(h_todo)].output \notin {"render", "quicktime", "flame"}
    /\ FinishTask(Head(h_todo), << >>, <<"Don't know how to publish this item!">>)
    /\ UNCHANGED <<h_render_publishes, gen_vars, clip_vars, range_vars>>

\* return results (line 243, pre-publish line 139)
HookReturn ==
    /\ h_pc = "loop"
    /\ h_todo = << >>
    /\ h_pc' = "returned"
    /\ UNCHANGED <<h_hook, h_tasks, h_tasks0, h_env, h_todo, h_render_publishes,
                   h_results, h_log, h_processed, gen_vars, clip_vars, range_vars>>

HookNext ==
    \/ PublishAppMissing
    \/ PublishBegin
    \/ PublishNodeMissing
    \/ \E outcome \in RenderOutcomes : PublishRender(outcome)
    \/ \E submitted \in BOOLEAN : PublishQuicktime(submitted)
    \/ \E updated \in BOOLEAN : PublishFlame(updated)
    \/ PublishOther
    \/ PrePublishBegin
    \/ \E locked \in BOOLEAN, files \in RenderFileStates : PrePublishRender(locked, files)
    \/ PrePublishQuicktime
    \/ PrePublishFlame
    \/ PrePublishOther
    \/ HookReturn

HookSpecInit == HookInit /\ GenIdle /\ ClipIdle /\ RangeIdle

SpecHooks == HookSpecInit /\ [][HookNext]_vars

(***************************************************************************)
(* Properties                                                              *)
(***************************************************************************)
\* ---- reading a clip document, independently of the hook's lookups -------
HasVideoTrack(doc) == \E i \in 1..Len(doc.tracks) : doc.tracks[i].uid = Some("video")

FirstVideoIndex(doc) ==
    CHOOSE i \in 1..Len(doc.tracks) :
        /\ doc.tracks[i].uid = Some("video")
        /\ \A k \in 1..(i - 1) : doc.tracks[k].uid # Some("video")

\* a required element is missing: the video track, its feeds list, the versions list
LacksElement(doc) ==
    \/ ~HasVideoTrack(doc)
    \/ doc.tracks[FirstVideoIndex(doc)].feeds = << >>
    \/ doc.versions = << >>

VideoFeeds(doc) == doc.tracks[FirstVideoIndex(doc)].feeds[1].children
DocVersions(doc) == doc.versions[1].children

Last(seq) == seq[Len(seq)]
UidsOf(nodes) == [i \in 1..Len(nodes) |-> nodes[i].uid]
IsExtendedByOne(before, after) ==
    /\ Len(after) = Len(before) + 1
    /\ SubSeq(after, 1, Len(before)) = before

\* every identifier a document uses: feed uids and vuids, version uids
AllUids(doc) ==
    UNION { UNION { { l.children[k].uid : k \in 1..Len(l.children) }
                    \cup { l.children[k].vuid : k \in 1..Len(l.children) } :
                    l \in { doc.tracks[i].feeds[j] : j \in 1..Len(doc.tracks[i].feeds) } } :
            i \in 1..Len(doc.tracks) }
    \cup UNION { { doc.versions[j].children[k].uid :
                      k \in 1..Len(doc.versions[j].children) } :
                 j \in 1..Len(doc.versions) }

\* C1: after a successful _update_flame_clip the feeds list of the video track
\* and the versions list of the document each have exactly one more child, the
\* new feed and the new version are the last children, and the children that
\* were there before are still there, in the same order and unmodified.
C1_StructuralAppend ==
    \A p \in Callers : pc[p] = "done" =>
        /\ CanParse(loc[p].orig)
        /\ CanParse(clip)
        /\ LET before == MinidomParse(loc[p].orig)
               after == MinidomParse(clip)
           IN /\ ~LacksElement(before)
              /\ ~LacksElement(after)
              /\ FirstVideoIndex(after) = FirstVideoIndex(before)
              /\ IsExtendedByOne(VideoFeeds(before), VideoFeeds(after))
              /\ IsExtendedByOne(DocVersions(before), DocVersions(after))
              /\ Last(VideoFeeds(after)).uid = loc[p].unique_id[1]
              /\ Last(VideoFeeds(after)).path = loc[p].path[1]
              /\ Last(DocVersions(after)).uid = loc[p].unique_id[1]

C1_Witness ==
    \E p \in Callers :
        /\ pc[p] = "done"
        /\ Len(VideoFeeds(MinidomParse(loc[p].orig))) >= 2
        /\ Len(DocVersions(MinidomParse(loc[p].orig))) >= 2
        /\ Len(VideoFeeds(MinidomParse(clip))) >= 3

\* C2: after a successful _update_flame_clip the backup file
\* <clip_path>.bak_<timestamp> holds, byte for byte, what the clip file held when
\* the call began; and the clip file is never changed (opened for writing)
\* before that backup is there.
C2_BackupBeforeWrite ==
    \A p \in Callers : pc[p] # "idle" =>
        LET backed_up ==
                /\ loc[p].backup_path # None
                /\ backups[loc[p].backup_path[1]] = loc[p].orig
        IN /\ pc[p] = "done" => backed_up
           /\ clip # loc[p].orig => backed_up

C2_Witness ==
    \E p \in Callers :
        /\ pc[p] = "done"
        /\ clip # loc[p].orig
        /\ loc[p].orig.layout = "flame"
        /\ backups[loc[p].backup_path[1]] = loc[p].orig

\* C3, as claimed: whatever the outcome of _update_flame_clip, the clip file
\* holds its complete original content or the complete updated document.
C3_AllOrNothing ==
    \A p \in Callers : pc[p] \in {"done", "raised"} =>
        \/ clip = loc[p].orig
        \/ loc[p].xml_string # None /\ clip = loc[p].xml_string[1]

\* C3, amended: a call that fails in the parse, the lookup, the serialization,
\* the backup copy or the open leaves the clip file with its complete original
\* content, and a call that succeeds leaves the complete updated document; only
\* a failure of the write itself leaves another content.
C3_IntactUnlessWriteFails ==
    \A p \in Callers :
        /\ pc[p] = "raised" /\ loc[p].err # "write" => clip = loc[p].orig
        /\ pc[p] = "done" => clip = loc[p].xml_string[1]
        /\ pc[p] = "raised" /\ loc[p].err = "write" => clip \in {EmptyFile, PartialFile}

C3_Witness ==
    \E p \in Callers :
        /\ pc[p] = "raised"
        /\ loc[p].err \in {"serialize", "backup", "open"}
        /\ loc[p].unique_id # None
        /\ CanParse(clip)
        /\ clip = loc[p].orig

\* C4: when the copy of the clip file to its backup path fails, the call ends
\* with an error and the clip file, never opened for writing, is unchanged.
C4_BackupFailureAborts ==
    \A p \in Callers : loc[p].backup_failed =>
        /\ pc[p] = "raised"
        /\ loc[p].err = "backup"
        /\ clip = loc[p].orig

C4_Witness ==
    \E p \in Callers :
        /\ loc[p].backup_failed
        /\ pc[p] = "raised"
        /\ loc[p].xml_string # None
        /\ clip = loc[p].orig

\* C5: with no published frame discovered the call fails before the clip file
\* is read, parsed, backed up or written: no backup file is created and the
\* clip file is unchanged.
C5_NoFramesNoFileAccess ==
    \A p \in Callers : pc[p] # "idle" /\ loc[p].frames = << >> =>
        /\ pc[p] = "raised"
        /\ loc[p].err = "no_frames"
        /\ loc[p].xml = None
        /\ loc[p].backup_path = None
        /\ backups = loc[p].backups0
        /\ clip = loc[p].orig

C5_Witness ==
    \E p \in Callers :
        /\ pc[p] = "raised"
        /\ loc[p].err = "no_frames"
        /\ CanParse(clip)
        /\ ~LacksElement(MinidomParse(clip))

\* C6: on a clip document without a track of uid "video", without a feeds list
\* in that track or without a versions list, the call fails with an error,
\* creates no backup file and leaves the clip file unmodified.
C6_MalformedClipUntouched ==
    \A p \in Callers :
        pc[p] # "idle" /\ CanParse(loc[p].orig) /\ LacksElement(MinidomParse(loc[p].orig)) =>
            /\ pc[p] \in {"parse", "update", "raised"}
            /\ pc[p] = "raised" =>
                  loc[p].err \in {"no_frames", "no_video_track", "no_feeds", "no_versions"}
            /\ loc[p].backup_path = None
            /\ backups = loc[p].backups0
            /\ clip = loc[p].orig

C6_Witness ==
    \E p \in Callers :
        /\ pc[p] = "raised"
        /\ loc[p].err = "no_video_track"
        /\ LacksElement(MinidomParse(loc[p].orig))
        /\ clip = loc[p].orig

\* C7, as claimed: the output part of the name follows the four-case table on
\* (name, channel), neither of them giving "Nuke", so that no task, no step, no
\* name, no channel and version 0 give "Nuke, v000".
C7_FourCaseTable ==
    gen_result # None =>
        /\ gen_result[1] = ContextPart(gen_context)
                           \o OutputPartTable(gen_fields.name, gen_fields.channel)
                           \o VersionPart(gen_fields.version)
        /\ (/\ gen_context = [task |-> None, step |-> None]
            /\ gen_fields = [name |-> None, channel |-> None, version |-> Some(0)])
           => gen_result[1] = <<"N","u","k","e",","," ","v","0","0","0">>

\* C8, as claimed: the name starts with the task name, else the step name,
\* its first letter made a capital, followed by ", "; the version suffix comes
\* last; a task "Lighting CBBs" with name "final", no channel and version 34
\* gives "Lighting CBBs, final.nk, v034".
C8_TaskPrefixCapitalized ==
    gen_result # None =>
        /\ gen_result[1] =
              (IF gen_context.task # None
               THEN UpperFirst(gen_context.task[1]) \o CommaSpace
               ELSE IF gen_context.step # None
                    THEN UpperFirst(gen_context.step[1]) \o CommaSpace
                    ELSE << >>)
              \o OutputPart(gen_fields.name, gen_fields.channel)
              \o VersionPart(gen_fields.version)
        /\ (/\ gen_context.task = Some(S_LightingCBBs)
            /\ gen_fields = [name |-> Some(S_final), channel |-> None, version |-> Some(34)])
           => gen_result[1] = S_LightingCBBs \o <<",", " ">> \o S_final
                              \o <<".","n","k",","," ","v","0","3","4">>

C10_NoDeduplication ==
    (published # << >> /\ CanParse(clip)) =>
        LET doc0 == MinidomParse(clip0)
            doc == MinidomParse(clip)
        IN /\ UidsOf(VideoFeeds(doc)) = UidsOf(VideoFeeds(doc0)) \o published
           /\ UidsOf(DocVersions(doc)) = UidsOf(DocVersions(doc0)) \o published
           /\ \A i, j \in 1..Len(published) : published[i] = published[j] => i = j

C10_Witness ==
    /\ Len(published) = 2
    /\ CanParse(clip)
    /\ LET feeds == VideoFeeds(MinidomParse(clip))
       IN feeds[Len(feeds)].path = feeds[Len(feeds) - 1].path

\* ---- the frame range, read off the frame numbers themselves -------------
SetOfFrames(frames) == { frames[i] : i \in 1..Len(frames) }
TrueMin(frames) == CHOOSE m \in SetOfFrames(frames) : \A x \in SetOfFrames(frames) : m <= x
TrueMax(frames) == CHOOSE m \in SetOfFrames(frames) : \A x \in SetOfFrames(frames) : m >= x
Reordered(frames, perm) == [i \in 1..Len(frames) |-> frames[perm[i]]]

\* C11: for a non-empty list of discovered frame numbers, in any order, the
\* derived range is (true minimum, true maximum); every permutation of the
\* list gives the same range, and min_frame <= max_frame.
C11_RangeIsMinMax ==
    (range_out # None /\ range_frames # << >>) =>
        /\ ~range_out[1].raised
        /\ range_out[1].min = Some(TrueMin(range_frames))
        /\ range_out[1].max = Some(TrueMax(range_frames))
        /\ range_out[1].min[1] <= range_out[1].max[1]
        /\ \A perm \in Permutations(1..Len(range_frames)) :
              ScanFrames(Reordered(range_frames, perm), None, None)
                 = [min |-> range_out[1].min, max |-> range_out[1].max]

C11_Witness ==
    /\ range_out # None
    /\ Len(range_frames) = 3
    /\ range_frames[1] < range_frames[3]
    /\ range_frames[3] < range_frames[2]
    /\ range_out[1].max = Some(range_frames[2])
    /\ range_out[1].min = Some(range_frames[1])

\* ---- reading a zero padded number back ----------------------------------
IsDigit(c) == \E d \in 1..Len(DigitChars) : DigitChars[d] = c
DigitValue(c) == (CHOOSE d \in 1..Len(DigitChars) : DigitChars[d] = c) - 1

RECURSIVE NumberOf(_)
NumberOf(s) ==
    IF s = << >> THEN 0
    ELSE 10 * NumberOf(SubSeq(s, 1, Len(s) - 1)) + DigitValue(s[Len(s)])

\* s is n in decimal, filled with zeros on the left up to the width
IsZeroPadded(s, n, width) ==
    /\ s # << >>
    /\ \A i \in 1..Len(s) : IsDigit(s[i])
    /\ NumberOf(s) = n
    /\ Len(s) >= width
    /\ Len(s) > width => s[1] # "0"

\* C12: the path of the new feed is the publish template with the sequence
\* token replaced by "[<min>-<max>]", both numbers zero padded to the width N of
\* the sequence key; width 4 and frames {100, 150, 120} give "[0100-0150]".
C12_PaddedRangeInPath ==
    (range_out # None /\ ~range_out[1].raised) =>
        LET path == range_out[1].path[1]
            dash == CHOOSE i \in 1..Len(path) : path[i] = "-"
        IN /\ Cardinality({ i \in 1..Len(path) : path[i] = "-" }) = 1
           /\ SubSeq(path, 1, 5) = <<"s","e","q",".","[">>
           /\ SubSeq(path, Len(path) - 4, Len(path)) = <<"]",".","d","p","x">>
           /\ IsZeroPadded(SubSeq(path, 6, dash - 1), TrueMin(range_frames), range_format)
           /\ IsZeroPadded(SubSeq(path, dash + 1, Len(path) - 5),
                           TrueMax(range_frames), range_format)
           /\ (range_frames = <<100, 150, 120>> /\ range_format = 4) =>
                 path = <<"s","e","q",".","[","0","1","0","0","-","0","1","5","0","]",
                          ".","d","p","x">>

C12_Witness ==
    /\ range_frames = <<100, 150, 120>>
    /\ range_format = 4
    /\ range_out # None
    /\ range_out[1].path = Some(<<"s","e","q",".","[","0","1","0","0","-","0","1","5","0",
                                  "]",".","d","p","x">>)

\* C13: _update_flame_clip never changes the currentVersion attribute of a
\* feeds container or of a versions container: after any number of successful
\* updates they have the values of the original document.
C13_CurrentVersionKept ==
    (CanParse(clip0) /\ CanParse(clip)) =>
        LET doc0 == MinidomParse(clip0)
            doc == MinidomParse(clip)
        IN /\ Len(doc.tracks) = Len(doc0.tracks)
           /\ Len(doc.versions) = Len(doc0.versions)
           /\ \A i \in 1..Len(doc0.tracks) :
                 /\ Len(doc.tracks[i].feeds) = Len(doc0.tracks[i].feeds)
                 /\ \A j \in 1..Len(doc0.tracks[i].feeds) :
                       doc.tracks[i].feeds[j].currentVersion
                          = doc0.tracks[i].feeds[j].currentVersion
           /\ \A j \in 1..Len(doc0.versions) :
                 doc.versions[j].currentVersion = doc0.versions[j].currentVersion

C13_Witness ==
    /\ Len(published) >= 2
    /\ CanParse(clip)
    /\ LET doc == MinidomParse(clip)
       IN /\ doc.tracks[FirstVideoIndex(doc)].feeds[1].currentVersion = FlameUid(1)
          /\ doc.versions[1].currentVersion = FlameUid(1)
          /\ Last(DocVersions(doc)).uid = Last(published)
          /\ Last(VideoFeeds(doc)).vuid = Last(published)

\* ---- the backup files that exist -----------------------------------------
BackupPaths(files) == { t \in Timestamps : files[t] # NoFile }

\* C17: two successful calls on the same clip path within one clock second
\* use the same backup path; the second backup overwrites the first, so that
\* the second call adds no backup file and the one file holds the clip as it
\* was before the second call, not as it was before the first.
C17_SameSecondBackupOverwritten ==
    \A p \in Callers :
        (/\ pc[p] = "done"
         /\ Len(completed) >= 2
         /\ completed[Len(completed) - 1].backup_path = Last(completed).backup_path) =>
            LET first == completed[Len(completed) - 1]
                second == Last(completed)
                path == second.backup_path[1]
            IN /\ second.uid = loc[p].unique_id[1]
               /\ backups[path] = second.before
               /\ backups[path] # first.before
               /\ BackupPaths(backups) = BackupPaths(loc[p].backups0)

C17_Witness ==
    \E p \in Callers :
        /\ pc[p] = "done"
        /\ Len(completed) = 2
        /\ completed[1].backup_path = completed[2].backup_path
        /\ Cardinality(BackupPaths(backups)) = 1
        /\ backups[completed[2].backup_path[1]] = completed[2].before
        /\ completed[1].before = clip0

\* C16: two calls that run at the same time on one clip file can both
\* succeed and leave a document with only one of the two new feed/version
\* pairs: when the call that wrote last had parsed the file before the other
\* call wrote it, the file holds the last writer's pair and not the other's.
C16_LostUpdate ==
    \A p, q \in Callers :
        (/\ p # q
         /\ pc[p] = "done"
         /\ pc[q] = "done"
         /\ Last(published) = loc[p].unique_id[1]
         /\ loc[q].unique_id[1] \notin AllUids(loc[p].xml[1])) =>
            /\ CanParse(clip)
            /\ loc[p].unique_id[1] \in AllUids(MinidomParse(clip))
            /\ loc[q].unique_id[1] \notin AllUids(MinidomParse(clip))

C16_Witness ==
    \E p, q \in Callers :
        /\ p # q
        /\ pc[p] = "done"
        /\ pc[q] = "done"
        /\ published = <<loc[q].unique_id[1], loc[p].unique_id[1]>>
        /\ loc[q].unique_id[1] \notin AllUids(loc[p].xml[1])
        /\ loc[q].unique_id[1] \notin AllUids(MinidomParse(clip))

\* ---- reading a call of execute from the task list and the log ----------
OutputsOf(tasks) == { tasks[i].output : i \in 1..Len(tasks) }

\* a required app is missing: the configuration-level failure
AppUnavailable ==
    \/ /\ OutputsOf(h_tasks0) \cap {"render", "quicktime"} # {}
       /\ ~h_env.write_node_app
    \/ /\ "quicktime" \in OutputsOf(h_tasks0)
       /\ ~h_env.review_submission_app

\* the task has a failure of its own that needs no outcome of a collaborator
FailsOnItsOwn(task) ==
    \/ task.output \in {"render", "quicktime", "flame"} /\ task.node = None
    \/ task.output \notin {"render", "quicktime", "flame"}

ReportedTasks == { h_results[k].task : k \in 1..Len(h_results) }
Started(i) == \E k \in 1..Len(h_log) : h_log[k] = [ev |-> "start", task |-> i]
Finished(i) == \E k \in 1..Len(h_log) : h_log[k] = [ev |-> "done", task |-> i]

\* C14: in the publish hook a failure that concerns one task only (no write
\* node, a failed render publish, review submission or clip update, an
\* unknown output) is reported for that task and the other tasks are still
\* processed; execute raises only when a required app is missing.
C14_TaskFailuresIsolated ==
    h_hook = "publish" =>
        /\ h_pc = "raised" => AppUnavailable
        /\ h_pc = "returned" =>
              \A i \in 1..Len(h_tasks0) :
                  /\ Finished(i)
                  /\ FailsOnItsOwn(h_tasks0[i]) => i \in ReportedTasks

\* C15: in the publish hook, when a render or quicktime task is listed and
\* the write node app is missing, or a quicktime task is listed and the review
\* submission app is missing, execute raises before anything is done: no
\* progress report, no copy, no registered publish, no task processed.
C15_MissingAppAbortsAtOnce ==
    (h_hook = "publish" /\ h_pc # "start" /\ AppUnavailable) =>
        /\ h_pc = "raised"
        /\ h_log = << >>
        /\ h_processed = << >>
        /\ h_results = << >>
        /\ h_render_publishes = {}

C15_Witness ==
    /\ h_hook = "publish"
    /\ h_pc = "raised"
    /\ h_env.write_node_app /\ ~h_env.review_submission_app
    /\ Len(h_tasks0) = 3
    /\ h_tasks0[1].output = "render" /\ h_tasks0[1].node # None
    /\ h_tasks0[3].output = "quicktime"
    /\ h_log = << >>

\* C18: when execute of either hook returns, the report has exactly one
\* entry, with a non-empty list of errors, for each task that had an error,
\* in the order the tasks were processed, none for the other tasks; and the
\* tasks passed in are as they were.
C18_ReportListsFailedTasks ==
    h_pc = "returned" =>
        LET HadErrors(e) == e.errors # << >>
        IN /\ h_results = SelectSeq(h_processed, HadErrors)
           /\ \A k \in 1..Len(h_results) : Len(h_results[k].errors) > 0
           /\ \A j, k \in 1..Len(h_results) : h_results[j].task = h_results[k].task => j = k
           /\ { h_processed[k].task : k \in 1..Len(h_processed) } = 1..Len(h_tasks0)
           /\ Len(h_processed) = Len(h_tasks0)
           /\ h_tasks = h_tasks0

C18_Witness ==
    /\ h_pc = "returned"
    /\ h_hook = "pre_publish"
    /\ Len(h_tasks0) = 3
    /\ Len(h_results) = 2
    /\ h_results[1].task = 1 /\ h_results[2].task = 3
    /\ Len(h_results[1].errors) = 2

\* C19: whatever the order of the task list, the publish hook has processed
\* every render task before it starts a quicktime task or a flame task.
C19_RendersFirst ==
    h_hook = "publish" =>
        \A k \in 1..Len(h_log) :
            (/\ h_log[k].ev = "start"
             /\ h_tasks0[h_log[k].task].output \in {"quicktime", "flame"}) =>
                \A i \in 1..Len(h_tasks0) :
                    h_tasks0[i].output = "render" =>
                        \E j \in 1..(k - 1) : h_log[j] = [ev |-> "done", task |-> i]

C19_Witness ==
    /\ h_hook = "publish"
    /\ h_pc = "returned"
    /\ Len(h_tasks0) = 3
    /\ h_tasks0[1].output = "quicktime"
    /\ h_tasks0[2].output = "flame"
    /\ h_tasks0[3].output = "render"
    /\ Started(1) /\ Started(2)
    /\ h_results = << >>

\* ---- the render task a quicktime or flame task goes with -----------------
HasRenderOfSameNode(i) ==
    \E j \in 1..Len(h_tasks0) :
        /\ h_tasks0[j].output = "render"
        /\ h_tasks0[j].node # None
        /\ h_tasks0[j].node = h_tasks0[i].node

Unacceptable(i) ==
    \/ h_tasks0[i].output \in {"quicktime", "flame"} /\ ~HasRenderOfSameNode(i)
    \/ h_tasks0[i].output = "flame" /\ ~h_env.clip_exists

\* C20: the pre-publish hook accepts a quicktime or flame task only if the
\* list has a render task whose write node has the same name, and a flame
\* task only if the clip file exists as well; otherwise execute raises and
\* returns no report.
C20_ReviewNeedsRenderTask ==
    h_hook = "pre_publish" =>
        /\ \A i \in 1..Len(h_tasks0) : Finished(i) => ~Unacceptable(i)
        /\ h_pc = "returned" => \A i \in 1..Len(h_tasks0) : ~Unacceptable(i)
        /\ h_pc = "raised" =>
              /\ h_log # << >>
              /\ Last(h_log).ev = "start"
              /\ Unacceptable(Last(h_log).task)
        /\ (h_pc = "loop" /\ h_todo = << >>) =>
              \A i \in 1..Len(h_tasks0) : ~Unacceptable(i)

C20_Witness ==
    /\ h_hook = "pre_publish"
    /\ h_pc = "raised"
    /\ Len(h_tasks0) = 3
    /\ h_tasks0[1] = [node |-> <<"Write2">>, output |-> "render"]
    /\ h_tasks0[2] = [node |-> <<"Write1">>, output |-> "quicktime"]
    /\ Finished(1) /\ Started(2) /\ ~Finished(2)

\* ---- what the log says of one task ---------------------------------------
CountEv(i, ev) ==
    Cardinality({ k \in 1..Len(h_log) : h_log[k] = [ev |-> ev, task |-> i] })

HadNoErrors(i) ==
    \E k \in 1..Len(h_processed) : h_processed[k] = [task |-> i, errors |-> << >>]

Precedes(e1, e2) ==
    \E a, b \in 1..Len(h_log) : a < b /\ h_log[a] = e1 /\ h_log[b] = e2

\* a render task of the same write node was published before task i started
RenderPublishedBefore(i) ==
    \E j \in 1..Len(h_tasks0) :
        /\ h_tasks0[j].output = "render"
        /\ h_tasks0[j].node # None
        /\ h_tasks0[j].node = h_tasks0[i].node
        /\ CountEv(j, "register") = 1
        /\ HadNoErrors(j)
        /\ Precedes([ev |-> "done", task |-> j], [ev |-> "start", task |-> i])

\* C21: in the publish hook the review submission of a quicktime task and the
\* clip update of a flame task happen only if a render task of the same write
\* node was published without error earlier in the call; otherwise the task
\* is reported with an error and neither collaborator is called for it.
C21_ReviewNeedsPublishedRender ==
    h_hook = "publish" =>
        \A i \in 1..Len(h_tasks0) :
            h_tasks0[i].output \in {"quicktime", "flame"} =>
                /\ (CountEv(i, "review") + CountEv(i, "clip") > 0)
                      => RenderPublishedBefore(i)
                /\ (Finished(i) /\ ~RenderPublishedBefore(i)) =>
                      /\ i \in ReportedTasks
                      /\ CountEv(i, "review") = 0
                      /\ CountEv(i, "clip") = 0
                /\ CountEv(i, "review") > 0 => h_tasks0[i].output = "quicktime"
                /\ CountEv(i, "clip") > 0 => h_tasks0[i].output = "flame"

C21_Witness ==
    /\ h_hook = "publish"
    /\ h_pc = "returned"
    /\ Len(h_tasks0) = 3
    /\ h_tasks0[1] = [node |-> <<"Write1">>, output |-> "quicktime"]
    /\ h_tasks0[2] = [node |-> <<"Write1">>, output |-> "render"]
    /\ h_tasks0[3] = [node |-> <<"Write1">>, output |-> "flame"]
    /\ CountEv(2, "copy_error") = 1
    /\ ReportedTasks = {1, 2, 3}
    /\ CountEv(1, "review") = 0 /\ CountEv(3, "clip") = 0

\* ---- the order execute is to follow --------------------------------------
FirstTaskOf(output_name) ==
    CHOOSE k \in 1..Len(h_tasks0) :
        /\ h_tasks0[k].output = output_name
        /\ \A m \in 1..(k - 1) : h_tasks0[m].output # output_name

GroupRank(i) ==
    IF h_tasks0[i].output = "render" THEN 0
    ELSE IF h_tasks0[i].output = "quicktime" THEN 1
    ELSE 1 + FirstTaskOf(h_tasks0[i].output)

IsBefore(i, j) ==
    \/ GroupRank(i) < GroupRank(j)
    \/ GroupRank(i) = GroupRank(j) /\ i < j

\* C22: when execute of the publish hook returns, every task of the list has
\* been processed exactly once (one start and one completion report, at most
\* one clip update), the tasks of one output in the order of the list, the
\* outputs other than render and quicktime after these two, in the order of
\* their first task.
C22_EachTaskOnceInGroupOrder ==
    (h_hook = "publish" /\ h_pc = "returned") =>
        LET IsStart(e) == e.ev = "start"
            starts == SelectSeq(h_log, IsStart)
        IN /\ \A i \in 1..Len(h_tasks0) :
                 /\ CountEv(i, "start") = 1
                 /\ CountEv(i, "done") = 1
                 /\ CountEv(i, "clip") <= 1
                 /\ Precedes([ev |-> "start", task |-> i], [ev |-> "done", task |-> i])
           /\ Len(starts) = Len(h_tasks0)
           /\ \A a, b \in 1..Len(starts) :
                 a < b => IsBefore(starts[a].task, starts[b].task)

C22_Witness ==
    /\ h_hook = "publish"
    /\ h_pc = "returned"
    /\ Len(h_tasks0) = 3
    /\ h_tasks0[1].output = "alembic"
    /\ h_tasks0[2].output = "flame"
    /\ h_tasks0[3].output = "render"
    /\ Precedes([ev |-> "done", task |-> 3], [ev |-> "start", task |-> 1])
    /\ Precedes([ev |-> "done", task |-> 1], [ev |-> "start", task |-> 2])
    /\ CountEv(2, "clip") = 1

\* C23: _publish_write_node_render registers the publish only once every
\* render file of the node is copied: with a locked render path nothing is
\* copied or registered; when a copy fails nothing is registered and the node
\* gets no entry for the quicktime and flame tasks.
C23_RegisterAfterAllCopies ==
    h_hook = "publish" =>
        /\ \A i \in 1..Len(h_tasks0) :
              h_tasks0[i].output = "render" =>
                 /\ CountEv(i, "locked") > 0 =>
                       CountEv(i, "copy") = 0 /\ CountEv(i, "register") = 0
                 /\ CountEv(i, "copy_error") > 0 => CountEv(i, "register") = 0
                 /\ CountEv(i, "register") > 0 =>
                       /\ CountEv(i, "copy") = CountEv(i, "file")
                       /\ \A a, b \in 1..Len(h_log) :
                             (/\ h_log[a] = [ev |-> "copy", task |-> i]
                              /\ h_log[b] = [ev |-> "register", task |-> i]) => a < b
        /\ \A name \in h_render_publishes :
              \E j \in 1..Len(h_tasks0) :
                  /\ h_tasks0[j] = [node |-> <<name>>, output |-> "render"]
                  /\ CountEv(j, "register") = 1
                  /\ CountEv(j, "copy_error") = 0
                  /\ CountEv(j, "locked") = 0
                  /\ HadNoErrors(j)

C23_Witness ==
    /\ h_hook = "publish"
    /\ h_pc = "returned"
    /\ Len(h_tasks0) = 3
    /\ h_tasks0[1] = [node |-> <<"Write1">>, output |-> "render"]
    /\ h_tasks0[2] = [node |-> <<"Write2">>, output |-> "render"]
    /\ h_tasks0[3] = [node |-> <<"Write1">>, output |-> "quicktime"]
    /\ CountEv(1, "file") = 2 /\ CountEv(1, "copy") = 1 /\ CountEv(1, "copy_error") = 1
    /\ CountEv(2, "copy") = 2 /\ CountEv(2, "register") = 1
    /\ h_render_publishes = {"Write2"}
    /\ ReportedTasks = {1, 3}

\* ---- what the validation of a render task met ----------------------------
ErrorsReported(i) ==
    IF i \in ReportedTasks
    THEN Len((CHOOSE r \in {h_results[k] : k \in 1..Len(h_results)} : r.task = i).errors)
    ELSE 0

ConditionsMet(i) ==
    IF ~h_env.write_node_app \/ h_tasks0[i].node = None THEN 1
    ELSE CountEv(i, "locked")
         + CountEv(i, "none") + CountEv(i, "existing") + CountEv(i, "exception")

\* C24: the pre-publish hook never raises for a render task: a missing write
\* node app, a missing node, a locked render path, no render files, publish
\* files that exist already and an exception during the checks are each
\* reported as an error of the task, and validation goes on.
C24_RenderValidationNeverRaises ==
    h_hook = "pre_publish" =>
        /\ h_pc = "raised" => h_tasks0[Last(h_log).task].output # "render"
        /\ \A i \in 1..Len(h_tasks0) :
              (h_tasks0[i].output = "render" /\ Started(i)) =>
                 /\ Finished(i)
                 /\ ErrorsReported(i) = ConditionsMet(i)

C24_Witness ==
    /\ h_hook = "pre_publish"
    /\ h_pc = "returned"
    /\ h_env.write_node_app
    /\ Len(h_tasks0) = 3
    /\ \A i \in 1..3 : h_tasks0[i].output = "render"
    /\ h_tasks0[3].node = None
    /\ CountEv(1, "locked") = 1 /\ CountEv(1, "none") = 1
    /\ CountEv(2, "exception") = 1 /\ CountEv(2, "locked") = 0
    /\ ReportedTasks = {1, 2, 3}
    /\ ErrorsReported(1) = 2

====
